---- MODULE Spec2Model ----
(***************************************************************************)
(* Offline write queue and synchronisation of the cafe point-of-sale       *)
(* client: the IndexedDB pending_operations store (lib/indexedDB), the     *)
(* SyncService drain (lib/syncService), the SyncProvider connectivity      *)
(* handlers (contexts/SyncContext) and the offline-aware dispatcher hook   *)
(* (hooks/useOfflineOperations), against an abstract remote CRUD store.    *)
(***************************************************************************)
EXTENDS Integers, Sequences, FiniteSets, TLC

\* ---------------------------------------------------------------- bounds
MaxEvents == 3         \* external events in one behaviour: dispatcher calls,
                       \* connectivity events, manual sync triggers,
                       \* interval checks and
                       \* injected storage / remote / subscriber failures
MaxTime == 2           \* largest value of the clock Date.now()
NumInvocations == 2    \* concurrently live triggerSync() invocations
MaxStored == 2         \* entries the store holds when the service is
                       \* exercised alone

Invocations == 1..NumInvocations
Rnd == {1, 2, 3}       \* values of the random id suffix

Undefined == "undefined"   \* a property the JS object does not carry

\* ------------------------------------------------------------- variables
VARIABLES
    db,            \* IndexedDBService.db is non-null (init() resolved)
    ops,           \* pending_operations object store: set of PendingOperation
    now,           \* Date.now()
    issued,        \* id suffixes generated during the millisecond now
    remote,        \* remote tables orders, order_items, payments
    isSyncing,     \* SyncService.isSyncing
    navOnLine,     \* navigator.onLine
    isOnline,      \* SyncProvider state isOnline
    mountOnline,   \* isOnline as captured by the first render's triggerSync
    hasPendingChanges, \* SyncProvider state hasPendingChanges
    pc,            \* position of each triggerSync invocation
    loc,           \* locals of each invocation
    events,        \* external events so far
    lastDispatch,  \* observation of the most recent dispatcher call
    hist           \* observation of the drains (attempts, pulses, effects)

vars == <<db, ops, now, issued, remote, isSyncing, navOnLine, isOnline, mountOnline,
          hasPendingChanges, pc, loc, events, lastDispatch, hist>>

connVars == <<navOnLine, isOnline, mountOnline>>
uiVars == <<hasPendingChanges>>
drainVars == <<isSyncing, pc, loc, hist>>

OpTypes == {"create_order", "update_order", "delete_order", "create_order_item",
            "update_order_item", "delete_order_item", "submit_payment"}

\* ------------------------------------------------------------------ data
\* A payload object; an id field the object lacks is Undefined, a numeric
\* field the object lacks is never read by the code that receives it.
Payload(id, order_id, price, quantity, total, items) ==
    [id |-> id, order_id |-> order_id, price |-> price, quantity |-> quantity,
     total_amount |-> total, items |-> items]

\* ------------------------------------------------------- remote system
\* Primary key produced by the column default gen_random_uuid().
GenId(n) == "g" \o ToString(n)

Drop(f, S) == [x \in DOMAIN f \ S |-> f[x]]

Fail(r) == [err |-> TRUE, r |-> r]
Done(r) == [err |-> FALSE, r |-> r]

\* insert into orders: primary key, CHECK (total_amount >= 0); every caller
\* sends status 'pending'
InsertOrder(r, id, total) ==
    LET key == IF id = Undefined THEN GenId(r.genCount + 1) ELSE id IN
    IF key \in DOMAIN r.orders \/ total < 0 THEN Fail(r)
    ELSE Done([r EXCEPT !.orders = @ @@ (key :> [total_amount |-> total,
                                                 status |-> "pending"]),
                        !.genCount = IF id = Undefined THEN @ + 1 ELSE @])

\* update orders set total_amount where id = key (no row: no error)
UpdateOrderTotal(r, key, total) ==
    IF key \notin DOMAIN r.orders THEN Done(r)
    ELSE IF total < 0 THEN Fail(r)
    ELSE Done([r EXCEPT !.orders[key].total_amount = total])

\* delete from orders where id = key, ON DELETE CASCADE to items and payments
DeleteOrder(r, key) ==
    Done([r EXCEPT
        !.orders = Drop(@, {key}),
        !.order_items = Drop(@, {i \in DOMAIN @ : @[i].order_id = key}),
        !.payments = Drop(@, {p \in DOMAIN @ : @[p].order_id = key})])

\* insert into order_items: primary key, order_id REFERENCES orders,
\* CHECK (quantity > 0), CHECK (price > 0)
InsertItem(r, id, order_id, price, quantity) ==
    LET key == IF id = Undefined THEN GenId(r.genCount + 1) ELSE id IN
    IF \/ key \in DOMAIN r.order_items
       \/ order_id \notin DOMAIN r.orders
       \/ price <= 0 \/ quantity <= 0
    THEN Fail(r)
    ELSE Done([r EXCEPT
        !.order_items = @ @@ (key :> [order_id |-> order_id, price |-> price,
                                      quantity |-> quantity]),
        !.genCount = IF id = Undefined THEN @ + 1 ELSE @])

UpdateItemQuantity(r, key, quantity) ==
    IF key \notin DOMAIN r.order_items THEN Done(r)
    ELSE IF quantity <= 0 THEN Fail(r)
    ELSE Done([r EXCEPT !.order_items[key].quantity = quantity])

\* (variant: deleting a row that is not there is reported as an error)
DeleteItem_strict(r, key) ==
    IF key \notin DOMAIN r.order_items THEN Fail(r)
    ELSE Done([r EXCEPT !.order_items = Drop(@, {key})])

DeleteItem(r, key) == Done([r EXCEPT !.order_items = Drop(@, {key})])

\* insert into payments: primary key, order_id REFERENCES orders
InsertPayment(r, id, order_id, amount) ==
    LET key == IF id = Undefined THEN GenId(r.genCount + 1) ELSE id IN
    IF key \in DOMAIN r.payments \/ order_id \notin DOMAIN r.orders \/ amount < 0
    THEN Fail(r)
    ELSE Done([r EXCEPT
        !.payments = @ @@ (key :> [order_id |-> order_id, amount |-> amount]),
        !.genCount = IF id = Undefined THEN @ + 1 ELSE @])

\* A remote call that the network lets through (ok) or not.
Call(ok, res, r) == IF ok THEN res ELSE Fail(r)

\* ------------------------------------------------- IndexedDBService
KeyLess(i, j) == i[1] < j[1] \/ (i[1] = j[1] /\ i[2] < j[2])

\* (variant: the index read backwards)
Before_descending(a, b) ==
    a.timestamp > b.timestamp \/ (a.timestamp = b.timestamp /\ KeyLess(b.id, a.id))

\* order of the index 'timestamp': by key, then by primary key
Before(a, b) ==
    a.timestamp < b.timestamp \/ (a.timestamp = b.timestamp /\ KeyLess(a.id, b.id))

RECURSIVE IndexOrder(_)
IndexOrder(S) ==
    IF S = {} THEN <<>>
    ELSE LET m == CHOOSE x \in S : \A y \in S \ {x} : Before(x, y)
         IN  <<m>> \o IndexOrder(S \ {m})

\* getPendingOperations(): index('timestamp').getAll()
getPendingOperations(store) == IndexOrder(store)

\* (variant: the retryCount argument is dropped)
updateOperationStatus_statusOnly(store, id, status, retryCount) ==
    {IF o.id = id THEN [o EXCEPT !.status = status] ELSE o : o \in store}

\* (variant: the put refreshes the entry's timestamp)
updateOperationStatus_touch(store, id, status, retryCount) ==
    {IF o.id = id
        THEN [o EXCEPT !.status = status, !.timestamp = now,
                       !.retryCount = IF retryCount >= 0 THEN retryCount ELSE @]
        ELSE o : o \in store}

\* (variant: put() without the test of getRequest.result, an id that is not
\* in the store gets a record of its own)
updateOperationStatus_upsert(store, id, status, retryCount) ==
    IF \E o \in store : o.id = id
    THEN {IF o.id = id
             THEN [o EXCEPT !.status = status,
                            !.retryCount = IF retryCount >= 0 THEN retryCount ELSE @]
             ELSE o : o \in store}
    ELSE store \cup {[id |-> id, type |-> "update_order", data |-> [id |-> "o1"],
                      timestamp |-> 0, status |-> status,
                      retryCount |-> IF retryCount >= 0 THEN retryCount ELSE 0]}

\* updateOperationStatus(id, status, retryCount?): retryCount < 0 stands for
\* an omitted argument.
updateOperationStatus(store, id, status, retryCount) ==
    {IF o.id = id
        THEN [o EXCEPT !.status = status,
                       !.retryCount = IF retryCount >= 0 THEN retryCount ELSE @]
        ELSE o : o \in store}

\* (variant: store.clear() in place of store.delete(id))
deletePendingOperation_clear(store, id) == {}

\* deletePendingOperation(id)
deletePendingOperation(store, id) == {o \in store : o.id # id}

\* n more external events fit in the behaviour
Budget(n) == events + n <= MaxEvents
Spend(n) == events' = events + n
Cost(b) == IF b THEN 1 ELSE 0

\* (variant: getStore opens the database on demand)
StoreOutcomes_openOnDemand(n) ==
    {"ok"} \cup (IF Budget(n + 1) THEN {"err"} ELSE {})

\* Outcomes of one request against the object store, in a step that has
\* already spent n events.
StoreOutcomes(n) ==
    IF ~db THEN {"notinit"}
    ELSE {"ok"} \cup (IF Budget(n + 1) THEN {"err"} ELSE {})

\* Outcomes of one request against the remote system.
NetOutcomes(n) == {TRUE} \cup (IF Budget(n + 1) THEN {FALSE} ELSE {})

\* (variant: one reading of the clock serves the id and the timestamp)
NewOperation_oneReading(type, data, t1, rnd, t2) ==
    [id |-> <<t1, rnd>>, type |-> type, data |-> data, timestamp |-> t1,
     status |-> "pending", retryCount |-> 0]

\* addPendingOperation(operation): the record that store.add() receives.
\* t1 and t2 are the two readings of Date.now(), rnd the random suffix.
NewOperation(type, data, t1, rnd, t2) ==
    [id |-> <<t1, rnd>>, type |-> type, data |-> data, timestamp |-> t2,
     status |-> "pending", retryCount |-> 0]

\* store.add(op): rejects when the key is already present.
addPendingOperation(store, op) ==
    IF \E o \in store : o.id = op.id THEN store ELSE store \cup {op}

\* Date.now() read again: the same millisecond or the next
Clock(t) == {t, t + 1} \cap (0..MaxTime)

\* Math.random() suffix: nine base-36 digits, taken to be fresh. It only
\* matters relative to the ids generated in the same millisecond, so the first
\* id of a millisecond gets the middle value.
Suffixes == IF issued = {} THEN {2} ELSE Rnd \ issued

\* ------------------------------------------- useOfflineOperations
Observe(threw, result, netFailed) ==
    lastDispatch' = [threw |-> threw, result |-> result, remoteFailed |-> netFailed,
                     queuedId |-> "none"]

\* an offline call: queuedId is what addPendingOperation resolved with
ObserveQueued(threw, result, id) ==
    lastDispatch' = [threw |-> threw, result |-> result, remoteFailed |-> FALSE,
                     queuedId |-> id]

\* (variant: a failed remote call is turned into a queue entry)
OnlineBranch_fallback(type, data, effect, row) ==
    \E ok \in NetOutcomes(1) :
        LET res == Call(ok, effect, remote) IN
        /\ remote' = res.r
        /\ Spend(1 + Cost(~ok))
        /\ ops' = IF res.err
                  THEN addPendingOperation(ops, NewOperation(type, data, now, 2, now))
                  ELSE ops
        /\ Observe(FALSE, row, res.err)
        /\ UNCHANGED <<now, issued>>

\* online branch: await supabase...; if (error) throw error; return data
OnlineBranch(type, data, effect, row) ==
    \E ok \in NetOutcomes(1) :
        LET res == Call(ok, effect, remote) IN
        /\ remote' = res.r
        /\ Spend(1 + Cost(~ok))
        /\ Observe(res.err, IF res.err THEN "none" ELSE row, res.err)
        /\ UNCHANGED <<ops, now, issued>>

\* offline branch: await indexedDBService.addPendingOperation({type, data,
\* status: 'pending'}); return the echo of the arguments
OfflineBranch(type, data, echo) ==
    \E rnd \in Suffixes, oc \in StoreOutcomes(1), t2 \in Clock(now) :
        LET op == NewOperation(type, data, now, rnd, t2)
            stored == IF oc = "ok" THEN addPendingOperation(ops, op) ELSE ops
            threw == stored = ops
        IN
        /\ ops' = stored
        /\ issued' = IF t2 # now THEN {}
                      ELSE IF threw THEN issued ELSE issued \cup {rnd}
        /\ now' = t2
        /\ Spend(1 + Cost(oc = "err"))
        /\ ObserveQueued(threw, IF threw THEN "none" ELSE echo,
                         IF threw THEN "none" ELSE op.id)
        /\ UNCHANGED remote

RowKey(id) == IF id = Undefined THEN GenId(remote.genCount + 1) ELSE id

\* .update(..).eq('id', key).select().single(): no row is an error
Single(key, table, res) == IF key \in DOMAIN table THEN res ELSE Fail(remote)

createOrder(orderData) ==
    IF isOnline
    THEN OnlineBranch("create_order", orderData,
                      InsertOrder(remote, orderData.id, orderData.total_amount),
                      RowKey(orderData.id))
    ELSE OfflineBranch("create_order", orderData, orderData.id)

updateOrder(orderId, updates) ==
    LET data == [updates EXCEPT !.id = orderId] IN
    IF isOnline
    THEN OnlineBranch("update_order", data,
                      Single(orderId, remote.orders,
                             UpdateOrderTotal(remote, orderId, updates.total_amount)),
                      orderId)
    ELSE OfflineBranch("update_order", data, orderId)

deleteOrder(orderId) ==
    LET data == Payload(orderId, Undefined, 0, 0, 0, <<>>) IN
    IF isOnline
    THEN OnlineBranch("delete_order", data, DeleteOrder(remote, orderId), "void")
    ELSE OfflineBranch("delete_order", data, "void")

createOrderItem(itemData) ==
    IF isOnline
    THEN OnlineBranch("create_order_item", itemData,
                      InsertItem(remote, itemData.id, itemData.order_id,
                                 itemData.price, itemData.quantity),
                      RowKey(itemData.id))
    ELSE OfflineBranch("create_order_item", itemData, itemData.id)

updateOrderItem(itemId, updates) ==
    LET data == [updates EXCEPT !.id = itemId] IN
    IF isOnline
    THEN OnlineBranch("update_order_item", data,
                      Single(itemId, remote.order_items,
                             UpdateItemQuantity(remote, itemId, updates.quantity)),
                      itemId)
    ELSE OfflineBranch("update_order_item", data, itemId)

deleteOrderItem(itemId) ==
    LET data == Payload(itemId, Undefined, 0, 0, 0, <<>>) IN
    IF isOnline
    THEN OnlineBranch("delete_order_item", data, DeleteItem(remote, itemId), "void")
    ELSE OfflineBranch("delete_order_item", data, "void")

submitPayment(paymentData) ==
    IF isOnline
    THEN OnlineBranch("submit_payment", paymentData,
                      InsertPayment(remote, paymentData.id, paymentData.order_id,
                                    paymentData.total_amount),
                      RowKey(paymentData.id))
    ELSE OfflineBranch("submit_payment", paymentData, paymentData.id)

\* --------------------------------------------------- callers' arguments
\* CreateOrderForm.handleSubmit: neither the order nor its items carry an id.
FormItem == [id |-> Undefined, price |-> 2, quantity |-> 1]
FormOrderData == Payload(Undefined, Undefined, 0, 0, 2, <<FormItem>>)

OrderArgs == {FormOrderData, Payload("o2", Undefined, 0, 0, 0, <<>>)}
OrderUpdates == {Payload(Undefined, Undefined, 0, 0, 7, <<>>)}
ItemArgs == {Payload("i2", "o1", 3, 1, 0, <<>>)}
ItemUpdates == {Payload(Undefined, "o1", 0, 3, 0, <<>>),
                Payload(Undefined, Undefined, 0, 3, 0, <<>>)}
\* PaymentForm.handleSubmit: id 'payment_<time>_<random>', amount in total_amount
PaymentArgs == {Payload("p1", "o1", 0, 0, 4, <<>>)}

Dispatcher(body) ==
    /\ Budget(1)
    /\ body
    /\ UNCHANGED <<db, connVars, uiVars, drainVars>>

CallCreateOrder == Dispatcher(\E a \in OrderArgs : createOrder(a))
CallUpdateOrder == Dispatcher(\E u \in OrderUpdates : updateOrder("o1", u))
CallDeleteOrder == Dispatcher(deleteOrder("o1"))
CallCreateOrderItem == Dispatcher(\E a \in ItemArgs : createOrderItem(a))
CallUpdateOrderItem == Dispatcher(\E u \in ItemUpdates : updateOrderItem("i1", u))
CallDeleteOrderItem == Dispatcher(deleteOrderItem("i1"))
CallSubmitPayment == Dispatcher(\E a \in PaymentArgs : submitPayment(a))

\* ------------------------------------------------ SyncService replay
\* One replay handler is a sequence of awaited remote calls. Each operator
\* below gives the outcome of the call at position step: the remote tables,
\* the handler's locals, whether the handler throws or returns there, whether
\* the call reported an error, and which effect it applied.
NoRow == [found |-> FALSE, order_id |-> Undefined, price |-> 0, quantity |-> 0,
          total_amount |-> 0]
Locals0 == [oldItem |-> NoRow, orderData |-> NoRow]

\* locals of one syncPendingOperations call: the listing, the loop position,
\* the position inside the replay handler and the handler's locals
Frame0 == [pendingOps |-> <<>>, idx |-> 1, step |-> 1, l |-> Locals0]

Out(r, l, thrown, finished, err, row, adj) ==
    [r |-> r, l |-> l, thrown |-> thrown, finished |-> finished, err |-> err,
     row |-> row, adj |-> adj]

SelectItem(r, key) ==
    IF key \in DOMAIN r.order_items
    THEN [found |-> TRUE, order_id |-> r.order_items[key].order_id,
          price |-> r.order_items[key].price,
          quantity |-> r.order_items[key].quantity, total_amount |-> 0]
    ELSE NoRow

SelectOrder(r, key) ==
    IF key \in DOMAIN r.orders
    THEN [NoRow EXCEPT !.found = TRUE, !.total_amount = r.orders[key].total_amount]
    ELSE NoRow

\* .insert(data.items.map(...)): one statement, all rows or none
RECURSIVE InsertItems(_, _, _)
InsertItems(r, order_id, items) ==
    IF items = <<>> THEN Done(r)
    ELSE LET first == InsertItem(r, Head(items).id, order_id, Head(items).price,
                                 Head(items).quantity)
         IN  IF first.err THEN first ELSE InsertItems(first.r, order_id, Tail(items))

\* (variant: the order insert's error is not thrown)
SyncService_createOrder_noAbort(data, step, ok, r, l) ==
    IF step = 1
    THEN LET res == Call(ok, InsertOrder(r, data.id, data.total_amount), r) IN
         Out(res.r, l, FALSE, Len(data.items) = 0, res.err,
             IF res.err THEN 0 ELSE 1, 0)
    ELSE LET all == InsertItems(r, data.id, data.items)
             res == Call(ok, IF all.err THEN Fail(r) ELSE all, r) IN
         Out(res.r, l, res.err, TRUE, res.err, 0, 0)

\* lines 75-101: insert into orders, throw on error; insert the items in one
\* statement, throw on error
SyncService_createOrder(data, step, ok, r, l) ==
    IF step = 1
    THEN LET res == Call(ok, InsertOrder(r, data.id, data.total_amount), r) IN
         IF res.err THEN Out(r, l, TRUE, TRUE, TRUE, 0, 0)
         ELSE Out(res.r, l, FALSE, Len(data.items) = 0, FALSE, 1, 0)
    ELSE LET all == InsertItems(r, data.id, data.items)
             res == Call(ok, IF all.err THEN Fail(r) ELSE all, r) IN
         Out(res.r, l, res.err, TRUE, res.err, 0, 0)

SyncService_updateOrder(data, step, ok, r, l) ==
    LET res == Call(ok, UpdateOrderTotal(r, data.id, data.total_amount), r) IN
    Out(res.r, l, res.err, TRUE, res.err, IF res.err THEN 0 ELSE 1, 0)

SyncService_deleteOrder(data, step, ok, r, l) ==
    LET res == Call(ok, DeleteOrder(r, data.id), r) IN
    Out(res.r, l, res.err, TRUE, res.err, IF res.err THEN 0 ELSE 1, 0)

\* the order-total read and write-back shared by the three item handlers:
\* read at position rd, write at position rd + 1 with the total NewTotal(l)
ReadTotal(order_id, ok, r, l) ==
    LET row == IF ok THEN SelectOrder(r, order_id) ELSE NoRow IN
    Out(r, [l EXCEPT !.orderData = row], FALSE, ~row.found, ~ok, 0, 0)

WriteTotal(order_id, total, ok, r, l) ==
    LET res == Call(ok, UpdateOrderTotal(r, order_id, total), r) IN
    Out(res.r, l, FALSE, TRUE, res.err, 0, IF res.err THEN 0 ELSE 1)

SyncService_createOrderItem(data, step, ok, r, l) ==
    CASE step = 1 ->
            LET res == Call(ok, InsertItem(r, data.id, data.order_id, data.price,
                                           data.quantity), r) IN
            IF res.err THEN Out(r, l, TRUE, TRUE, TRUE, 0, 0)
            ELSE Out(res.r, l, FALSE, FALSE, FALSE, 1, 0)
      [] step = 2 -> ReadTotal(data.order_id, ok, r, l)
      [] OTHER ->
            WriteTotal(data.order_id,
                       l.orderData.total_amount + data.price * data.quantity,
                       ok, r, l)

SyncService_updateOrderItem(data, step, ok, r, l) ==
    CASE step = 1 ->
            IF ok THEN Out(r, [l EXCEPT !.oldItem = SelectItem(r, data.id)],
                           FALSE, FALSE, FALSE, 0, 0)
            ELSE Out(r, l, TRUE, TRUE, TRUE, 0, 0)
      [] step = 2 ->
            LET res == Call(ok, UpdateItemQuantity(r, data.id, data.quantity), r) IN
            IF res.err THEN Out(r, l, TRUE, TRUE, TRUE, 0, 0)
            ELSE Out(res.r, l, FALSE, ~l.oldItem.found, FALSE, 1, 0)
      [] step = 3 -> ReadTotal(data.order_id, ok, r, l)
      [] OTHER ->
            WriteTotal(data.order_id,
                       l.orderData.total_amount
                         - l.oldItem.price * l.oldItem.quantity
                         + l.oldItem.price * data.quantity,
                       ok, r, l)

\* (variant: the quantity is left out of the item's contribution)
SyncService_deleteOrderItem_unitPrice(data, step, ok, r, l) ==
    CASE step = 1 ->
            IF ok THEN Out(r, [l EXCEPT !.oldItem = SelectItem(r, data.id)],
                           FALSE, FALSE, FALSE, 0, 0)
            ELSE Out(r, l, TRUE, TRUE, TRUE, 0, 0)
      [] step = 2 ->
            LET res == Call(ok, DeleteItem(r, data.id), r) IN
            IF res.err THEN Out(r, l, TRUE, TRUE, TRUE, 0, 0)
            ELSE Out(res.r, l, FALSE, ~l.oldItem.found, FALSE, 1, 0)
      [] step = 3 -> ReadTotal(l.oldItem.order_id, ok, r, l)
      [] OTHER ->
            WriteTotal(l.oldItem.order_id,
                       l.orderData.total_amount - l.oldItem.price,
                       ok, r, l)

SyncService_deleteOrderItem(data, step, ok, r, l) ==
    CASE step = 1 ->
            IF ok THEN Out(r, [l EXCEPT !.oldItem = SelectItem(r, data.id)],
                           FALSE, FALSE, FALSE, 0, 0)
            ELSE Out(r, l, TRUE, TRUE, TRUE, 0, 0)
      [] step = 2 ->
            LET res == Call(ok, DeleteItem(r, data.id), r) IN
            IF res.err THEN Out(r, l, TRUE, TRUE, TRUE, 0, 0)
            ELSE Out(res.r, l, FALSE, ~l.oldItem.found, FALSE, 1, 0)
      [] step = 3 -> ReadTotal(l.oldItem.order_id, ok, r, l)
      [] OTHER ->
            WriteTotal(l.oldItem.order_id,
                       l.orderData.total_amount
                         - l.oldItem.price * l.oldItem.quantity,
                       ok, r, l)

\* (variant: the replay also marks the order as paid)
SyncService_submitPayment_marksPaid(data, step, ok, r, l) ==
    LET res == Call(ok, InsertPayment(r, data.id, data.order_id,
                                      data.total_amount), r)
        paid == IF res.err THEN res.r
                ELSE [res.r EXCEPT !.orders[data.order_id].status = "paid"] IN
    Out(paid, l, res.err, TRUE, res.err, IF res.err THEN 0 ELSE 1, 0)

SyncService_submitPayment(data, step, ok, r, l) ==
    LET res == Call(ok, InsertPayment(r, data.id, data.order_id,
                                      data.total_amount), r) IN
    Out(res.r, l, res.err, TRUE, res.err, IF res.err THEN 0 ELSE 1, 0)

\* executeOperation(operation): the switch on operation.type
\* (variant: the default case returns)
executeOperation_defaultReturns(operation, step, ok, r, l) ==
    CASE operation.type = "create_order" ->
            SyncService_createOrder(operation.data, step, ok, r, l)
      [] operation.type = "update_order" ->
            SyncService_updateOrder(operation.data, step, ok, r, l)
      [] operation.type = "delete_order" ->
            SyncService_deleteOrder(operation.data, step, ok, r, l)
      [] operation.type = "create_order_item" ->
            SyncService_createOrderItem(operation.data, step, ok, r, l)
      [] operation.type = "update_order_item" ->
            SyncService_updateOrderItem(operation.data, step, ok, r, l)
      [] operation.type = "delete_order_item" ->
            SyncService_deleteOrderItem(operation.data, step, ok, r, l)
      [] operation.type = "submit_payment" ->
            SyncService_submitPayment(operation.data, step, ok, r, l)
      [] OTHER -> Out(r, l, FALSE, TRUE, FALSE, 0, 0)

\* lines 47-73: the switch on operation.type; default: throw new Error
executeOperation(operation, step, ok, r, l) ==
    CASE operation.type = "create_order" ->
            SyncService_createOrder(operation.data, step, ok, r, l)
      [] operation.type = "update_order" ->
            SyncService_updateOrder(operation.data, step, ok, r, l)
      [] operation.type = "delete_order" ->
            SyncService_deleteOrder(operation.data, step, ok, r, l)
      [] operation.type = "create_order_item" ->
            SyncService_createOrderItem(operation.data, step, ok, r, l)
      [] operation.type = "update_order_item" ->
            SyncService_updateOrderItem(operation.data, step, ok, r, l)
      [] operation.type = "delete_order_item" ->
            SyncService_deleteOrderItem(operation.data, step, ok, r, l)
      [] operation.type = "submit_payment" ->
            SyncService_submitPayment(operation.data, step, ok, r, l)
      [] OTHER -> Out(r, l, TRUE, TRUE, FALSE, 0, 0)

\* ------------------------------------------------------ observations
Hist0 ==
    [queued |-> {}, attempts |-> <<>>, pulses |-> <<>>,
     dropped |-> FALSE, storeFault |-> FALSE, done |-> FALSE,
     netFailed |-> {}, errs |-> {}, removed |-> {},
     applied |-> <<>>, adjusted |-> <<>>]

Inc(f, k, n) ==
    IF n = 0 THEN f
    ELSE IF k \in DOMAIN f THEN [f EXCEPT ![k] = @ + n] ELSE f @@ (k :> n)

\* ------------------------------------------------------- SyncProvider
Ui == [hasPendingChanges |-> hasPendingChanges]

\* the subscriber registered by SyncProvider with onSyncStatusChange
Subscriber(u, status) ==
    CASE status = "synced" -> [u EXCEPT !.hasPendingChanges = FALSE]
      [] OTHER -> u

SetUi(u) == hasPendingChanges' = u.hasPendingChanges

\* A subscriber callback may throw; the throw is an injected failure.
Throws(n) == {FALSE} \cup (IF Budget(n + 1) THEN {TRUE} ELSE {})

\* (variant: no filter on the status)
\* (variant: an entry is given up after two failures)
Pending_capped(o) == o.status \in {"pending", "failed"} /\ o.retryCount < 2

Pending_anyStatus(o) == o.status \in {"pending", "syncing", "failed"}

Pending(o) == o.status = "pending" \/ o.status = "failed"

\* (variant: 'failed' entries are not counted)
hasPendingOperations_pendingOnly(store) ==
    LET operations == getPendingOperations(store) IN
    \E i \in DOMAIN operations : operations[i].status = "pending"

hasPendingOperations(store) ==
    LET operations == getPendingOperations(store) IN
    \E i \in DOMAIN operations : Pending(operations[i])

\* ----------------------------------------- SyncService.syncPendingOperations
Active == {"list", "mark", "exec", "delete", "fail"}

SetPc(d, p) == pc' = [pc EXCEPT ![d] = p]

\* catch (error) { notifyCallbacks('error') } finally { isSyncing = false }
\* u, h: provider state and observations as left by the step so far;
\* th: the 'error' callback throws
TopLevelError(d, u, h, th) ==
    /\ loc' = [loc EXCEPT ![d] = Frame0]
    /\ SetUi(Subscriber(u, "error"))
    /\ hist' = [h EXCEPT !.pulses = Append(@, "error")]
    /\ isSyncing' = FALSE
    /\ SetPc(d, IF th THEN "idle" ELSE "check")

\* lines 11-15: the guard is set, 'syncing' is emitted, the listing requested
EnterDrain(d) ==
    /\ isSyncing' = TRUE
    /\ SetUi(Subscriber(Ui, "syncing"))
    /\ hist' = [hist EXCEPT !.queued = {}, !.attempts = <<>>,
                   !.pulses = <<"syncing">>, !.dropped = FALSE,
                   !.storeFault = FALSE, !.done = FALSE,
                   !.netFailed = {}, !.errs = {}, !.removed = {}]
    /\ \E th \in Throws(1) :
         /\ SetPc(d, IF th THEN "idle" ELSE "list")
         /\ Spend(1 + Cost(th))
    /\ UNCHANGED loc

\* (variant: no re-entrancy guard)
syncPendingOperations_unguarded(d) == EnterDrain(d)

\* lines 8-15: if (this.isSyncing) return; otherwise the drain is entered;
\* the calling handler is one external event
syncPendingOperations(d) ==
    IF isSyncing
    THEN /\ SetPc(d, "check")
         /\ hist' = [hist EXCEPT !.dropped = TRUE]
         /\ Spend(1)
         /\ UNCHANGED <<isSyncing, loc, uiVars>>
    ELSE EnterDrain(d)

\* triggerSync as rendered with isOnline = online
TriggerSyncBody(d, online) ==
    IF ~online
    THEN Spend(1) /\ UNCHANGED <<isSyncing, pc, loc, uiVars, hist>>
    ELSE syncPendingOperations(d)

\* A new call runs as invocation d: calls are interchangeable, so a new one
\* takes the lowest free position.
Fresh(d) == pc[d] = "idle" /\ \A e \in Invocations : e < d => pc[e] # "idle"

\* (variant: the context hands out the first render's triggerSync)
triggerSync_firstRender(d) ==
    /\ Fresh(d)
    /\ Budget(1)
    /\ TriggerSyncBody(d, mountOnline)
    /\ UNCHANGED <<db, ops, now, issued, remote, connVars, lastDispatch>>

\* triggerSync() of the current render (useOfflineOperations().triggerSync)
triggerSync(d) ==
    /\ Fresh(d)
    /\ Budget(1)
    /\ TriggerSyncBody(d, isOnline)
    /\ UNCHANGED <<db, ops, now, issued, remote, connVars, lastDispatch>>

\* window 'online' event: handleOnline, which holds the first render's
\* triggerSync (effect with [] dependencies). The listener runs on every
\* event it is sent: the browser sends one when navigator.onLine turns true,
\* and dispatchEvent can send one at any time.
handleOnline(d) ==
    /\ Fresh(d)
    /\ Budget(1)
    /\ navOnLine' = TRUE
    /\ isOnline' = TRUE
    /\ TriggerSyncBody(d, mountOnline)
    /\ UNCHANGED <<mountOnline, db, ops, now, issued, remote, lastDispatch>>

\* window 'offline' event, on a transition or repeated
handleOffline ==
    /\ Budget(1)
    /\ navOnLine' = FALSE
    /\ isOnline' = FALSE
    /\ Spend(1)
    /\ UNCHANGED <<mountOnline, db, ops, now, issued, remote, drainVars, uiVars,
                   lastDispatch>>

\* indexedDBService.init(): request.onsuccess
init ==
    /\ ~db
    /\ db' = TRUE
    /\ UNCHANGED <<ops, now, issued, remote, connVars, drainVars, uiVars, events,
                   lastDispatch>>

\* checkPendingOperations(): hasPending = await hasPendingOperations();
\* setHasPendingChanges(hasPending). A rejected request leaves the state as is.
CheckBody(oc, n) ==
    /\ Spend(n + Cost(oc = "err"))
    /\ IF oc = "ok"
       THEN hasPendingChanges' = hasPendingOperations(ops)
       ELSE UNCHANGED hasPendingChanges

\* on mount and every 10 s (setInterval): one external event
checkPendingOperations ==
    /\ Budget(1)
    /\ \E oc \in StoreOutcomes(1) : CheckBody(oc, 1)
    /\ UNCHANGED <<db, ops, now, issued, remote, connVars, drainVars, lastDispatch>>

\* triggerSync line 70: await checkPendingOperations() after the drain returned
AfterSync(d) ==
    /\ pc[d] = "check"
    /\ \E oc \in StoreOutcomes(0) : CheckBody(oc, 0)
    /\ SetPc(d, "idle")
    /\ UNCHANGED <<db, ops, now, issued, remote, connVars, isSyncing, loc, hist,
                   lastDispatch>>

\* (variant: an empty listing is announced as 'synced')
List_emptySynced(d) ==
    /\ pc[d] = "list"
    /\ \E oc \in StoreOutcomes(0) :
        IF oc = "ok"
        THEN LET operations == getPendingOperations(ops)
                 pendingOps == SelectSeq(operations, Pending) IN
             /\ Spend(0)
             /\ hist' = [hist EXCEPT
                    !.queued = {pendingOps[i] : i \in DOMAIN pendingOps},
                    !.pulses = IF pendingOps = <<>> THEN Append(@, "synced") ELSE @]
             /\ loc' = [loc EXCEPT ![d] =
                            IF pendingOps = <<>> THEN Frame0
                            ELSE [Frame0 EXCEPT !.pendingOps = pendingOps]]
             /\ IF pendingOps = <<>>
                THEN isSyncing' = FALSE /\ SetPc(d, "check")
                ELSE UNCHANGED isSyncing /\ SetPc(d, "mark")
             /\ UNCHANGED uiVars
        ELSE \E th \in Throws(Cost(oc = "err")) :
             /\ Spend(Cost(oc = "err") + Cost(th))
             /\ TopLevelError(d, Ui, [hist EXCEPT !.storeFault = TRUE], th)
    /\ UNCHANGED <<db, ops, now, issued, remote, connVars, lastDispatch>>

\* line 15-21: the listing resolves or rejects
List(d) ==
    /\ pc[d] = "list"
    /\ \E oc \in StoreOutcomes(0) :
        IF oc = "ok"
        THEN LET operations == getPendingOperations(ops)
                 pendingOps == SelectSeq(operations, Pending) IN
             /\ Spend(0)
             /\ hist' = [hist EXCEPT
                    !.queued = {pendingOps[i] : i \in DOMAIN pendingOps}]
             /\ loc' = [loc EXCEPT ![d] =
                            IF pendingOps = <<>> THEN Frame0
                            ELSE [Frame0 EXCEPT !.pendingOps = pendingOps]]
             /\ IF pendingOps = <<>>
                THEN isSyncing' = FALSE /\ SetPc(d, "check")
                ELSE UNCHANGED isSyncing /\ SetPc(d, "mark")
             /\ UNCHANGED uiVars
        ELSE \E th \in Throws(Cost(oc = "err")) :
             /\ Spend(Cost(oc = "err") + Cost(th))
             /\ TopLevelError(d, Ui, [hist EXCEPT !.storeFault = TRUE], th)
    /\ UNCHANGED <<db, ops, now, issued, remote, connVars, lastDispatch>>

\* end of one loop iteration: next entry, or line 38 notifyCallbacks('synced')
\* and the exit through finally
Advance(d, h) ==
    IF loc[d].idx < Len(loc[d].pendingOps)
    THEN /\ loc' = [loc EXCEPT ![d].idx = @ + 1, ![d].step = 1,
                               ![d].l = Locals0]
         /\ SetPc(d, "mark")
         /\ hist' = h
         /\ UNCHANGED <<isSyncing, uiVars, events>>
    ELSE LET h2 == [h EXCEPT !.pulses = Append(@, "synced"), !.done = TRUE] IN
         \E th \in Throws(0) :
              IF ~th
              THEN /\ loc' = [loc EXCEPT ![d] = Frame0]
                   /\ SetUi(Subscriber(Ui, "synced"))
                   /\ hist' = h2
                   /\ isSyncing' = FALSE
                   /\ SetPc(d, "check")
                   /\ UNCHANGED events
              ELSE \E th2 \in Throws(1) :
                   /\ TopLevelError(d, Subscriber(Ui, "synced"), h2, th2)
                   /\ Spend(1 + Cost(th2))

Current(d) == loc[d].pendingOps[loc[d].idx]

\* line 25: await updateOperationStatus(operation.id, 'syncing')
Mark(d) ==
    /\ pc[d] = "mark"
    /\ \E oc \in StoreOutcomes(0) :
        /\ Spend(Cost(oc = "err"))
        /\ IF oc = "ok"
           THEN /\ ops' = updateOperationStatus(ops, Current(d).id, "syncing", -1)
                /\ hist' = [hist EXCEPT !.attempts = Append(@, Current(d))]
                /\ SetPc(d, "exec")
           ELSE /\ hist' = [hist EXCEPT !.storeFault = TRUE]
                /\ SetPc(d, "fail")
                /\ UNCHANGED ops
    /\ UNCHANGED <<db, now, issued, remote, connVars, uiVars, isSyncing, loc,
                   lastDispatch>>

\* line 26: one awaited remote call of executeOperation(operation)
Exec(d) ==
    /\ pc[d] = "exec"
    /\ \E ok \in NetOutcomes(0) :
        LET out == executeOperation(Current(d), loc[d].step, ok, remote, loc[d].l) IN
        /\ Spend(Cost(~ok))
        /\ remote' = out.r
        /\ loc' = [loc EXCEPT ![d].l = out.l, ![d].step = @ + 1]
        /\ hist' = [hist EXCEPT
                !.applied = Inc(@, <<Current(d).type, Current(d).id>>, out.row),
                !.adjusted = Inc(@, <<Current(d).type, Current(d).id>>, out.adj),
                !.netFailed = IF out.thrown THEN @ \cup {Current(d).id} ELSE @,
                !.errs = IF out.err THEN @ \cup {Current(d).id} ELSE @]
        /\ SetPc(d, IF out.thrown THEN "fail"
                    ELSE IF out.finished THEN "delete" ELSE "exec")
    /\ UNCHANGED <<db, ops, now, issued, connVars, uiVars, isSyncing, lastDispatch>>

\* line 27: await deletePendingOperation(operation.id)
Delete(d) ==
    /\ pc[d] = "delete"
    /\ \E oc \in StoreOutcomes(0) :
        IF oc = "ok"
        THEN /\ ops' = deletePendingOperation(ops, Current(d).id)
             /\ Advance(d, [hist EXCEPT !.removed = @ \cup {Current(d).id}])
        ELSE /\ Spend(Cost(oc = "err"))
             /\ hist' = [hist EXCEPT !.storeFault = TRUE]
             /\ SetPc(d, "fail")
             /\ UNCHANGED <<ops, loc, isSyncing, uiVars>>
    /\ UNCHANGED <<db, now, issued, remote, connVars, lastDispatch>>

\* lines 28-35: catch: await updateOperationStatus(id, 'failed', retryCount + 1)
MarkFailed(d) ==
    /\ pc[d] = "fail"
    /\ \E oc \in StoreOutcomes(0) :
        IF oc = "ok"
        THEN /\ ops' = updateOperationStatus(ops, Current(d).id, "failed",
                                             Current(d).retryCount + 1)
             /\ Advance(d, hist)
        ELSE \E th \in Throws(Cost(oc = "err")) :
             /\ Spend(Cost(oc = "err") + Cost(th))
             /\ TopLevelError(d, Ui, [hist EXCEPT !.storeFault = TRUE], th)
             /\ UNCHANGED ops
    /\ UNCHANGED <<db, now, issued, remote, connVars, lastDispatch>>

\* ------------------------------------------------------- specification
Remote0 ==
    [orders |-> ("o1" :> [total_amount |-> 4, status |-> "pending"]),
     order_items |-> ("i1" :> [order_id |-> "o1", price |-> 2, quantity |-> 2]),
     payments |-> <<>>,
     genCount |-> 0]

\* a type outside the switch of executeOperation
UnknownType == "merge_orders"

\* pending_operations as the page finds it: IndexedDB outlives the page, and
\* init() opens the database without clearing it. The store is empty or holds
\* one entry that an earlier offline session queued at time 0: the order of
\* CreateOrderForm, or an order item with or without an id of its own; or it
\* holds two entries, the first one of a type that this version of
\* executeOperation does not know; or it holds three entries for the item i1:
\* deleteOrderItem called twice, then updateOrderItem.
Persisted ==
    {{},
     {NewOperation("create_order", FormOrderData, 0, 2, 0)},
     {NewOperation("create_order_item", Payload("i2", "o1", 3, 1, 0, <<>>), 0, 2, 0)},
     {NewOperation("create_order_item", Payload(Undefined, "o1", 3, 1, 0, <<>>), 0, 2, 0)},
     {NewOperation(UnknownType, Payload("o1", Undefined, 0, 0, 5, <<>>), 0, 1, 0),
      NewOperation("create_order_item", Payload("i2", "o1", 3, 1, 0, <<>>), 0, 2, 0)},
     {NewOperation("delete_order_item", Payload("i1", Undefined, 0, 0, 0, <<>>), 0, 1, 0),
      NewOperation("delete_order_item", Payload("i1", Undefined, 0, 0, 0, <<>>), 0, 2, 0),
      NewOperation("update_order_item", Payload("i1", Undefined, 0, 3, 0, <<>>), 0, 3, 0)}}

Init ==
    /\ db = FALSE
    /\ ops \in Persisted
    /\ now = 1
    /\ issued = {}
    /\ remote = Remote0
    /\ isSyncing = FALSE
    /\ navOnLine \in BOOLEAN
    /\ isOnline = navOnLine
    /\ mountOnline = navOnLine
    /\ hasPendingChanges = FALSE
    /\ pc = [d \in Invocations |-> "idle"]
    /\ loc = [d \in Invocations |-> Frame0]
    /\ events = 0
    /\ lastDispatch = [threw |-> FALSE, result |-> "none", remoteFailed |-> FALSE,
                       queuedId |-> "none"]
    /\ hist = Hist0

Next ==
    \/ init
    \/ CallCreateOrder
    \/ CallUpdateOrder
    \/ CallDeleteOrder
    \/ CallCreateOrderItem
    \/ CallUpdateOrderItem
    \/ CallDeleteOrderItem
    \/ CallSubmitPayment
    \/ handleOffline
    \/ checkPendingOperations
    \/ \E d \in Invocations :
        \/ handleOnline(d)
        \/ triggerSync(d)
        \/ AfterSync(d)
        \/ List(d)
        \/ Mark(d)
        \/ Exec(d)
        \/ Delete(d)
        \/ MarkFailed(d)

Spec == Init /\ [][Next]_vars

\* ------------------------------------------- IndexedDBService alone
\* The pending_operations methods called in any order with any id, as a client
\* of the service may call them. hist holds the last call: its name, whether
\* its id was missing from the store, and how its promise settled.
\* ids a client may pass: those in the store, the one the earlier session
\* issued, and one that was never issued
StoreIds == {o.id : o \in ops} \cup {<<0, 1>>, <<0, 2>>}
StoreFrame ==
    UNCHANGED <<issued, remote, connVars, isSyncing, pc, loc, uiVars, events,
                lastDispatch>>
StatusArgs == {<<"syncing", -1>>, <<"failed", 1>>}
Settled(call, missing, oc) ==
    hist' = [call |-> call, missing |-> missing, outcome |-> oc]

StoreInit ==
    /\ db = FALSE
    /\ ops \in Persisted
    /\ now = 1
    /\ issued = {}
    /\ remote = Remote0
    /\ isSyncing = FALSE
    /\ navOnLine = TRUE
    /\ isOnline = TRUE
    /\ mountOnline = TRUE
    /\ hasPendingChanges = FALSE
    /\ pc = [d \in Invocations |-> "idle"]
    /\ loc = [d \in Invocations |-> Frame0]
    /\ events = 0
    /\ lastDispatch = [threw |-> FALSE, result |-> "none", remoteFailed |-> FALSE,
                       queuedId |-> "none"]
    /\ hist = [call |-> "none", missing |-> FALSE, outcome |-> "ok"]

Store_init ==
    /\ ~db
    /\ db' = TRUE
    /\ UNCHANGED <<ops, now, hist>>
    /\ StoreFrame

Store_addPendingOperation ==
    /\ Cardinality(ops) < MaxStored
    \* one suffix: a second call in the same millisecond meets its own key
    /\ \E rnd \in {2}, t2 \in Clock(now), oc \in StoreOutcomes(0) :
        LET op == NewOperation("update_order", [id |-> "o1", total_amount |-> 3],
                               now, rnd, t2)
            stored == addPendingOperation(ops, op) IN
        /\ now' = t2
        /\ ops' = IF oc = "ok" THEN stored ELSE ops
        /\ Settled("addPendingOperation", op.id \notin {o.id : o \in ops},
                   IF oc = "ok" /\ stored = ops THEN "err" ELSE oc)
    /\ UNCHANGED db
    /\ StoreFrame

Store_getPendingOperations ==
    /\ \E oc \in StoreOutcomes(0) : Settled("getPendingOperations", FALSE, oc)
    /\ UNCHANGED <<db, ops, now>>
    /\ StoreFrame

Store_updateOperationStatus ==
    /\ \E id \in StoreIds, a \in StatusArgs, oc \in StoreOutcomes(0) :
        /\ ops' = IF oc = "ok" THEN updateOperationStatus(ops, id, a[1], a[2]) ELSE ops
        /\ Settled("updateOperationStatus", id \notin {o.id : o \in ops}, oc)
    /\ UNCHANGED <<db, now>>
    /\ StoreFrame

Store_deletePendingOperation ==
    /\ \E id \in StoreIds, oc \in StoreOutcomes(0) :
        /\ ops' = IF oc = "ok" THEN deletePendingOperation(ops, id) ELSE ops
        /\ Settled("deletePendingOperation", id \notin {o.id : o \in ops}, oc)
    /\ UNCHANGED <<db, now>>
    /\ StoreFrame

StoreNext ==
    \/ Store_init
    \/ Store_addPendingOperation
    \/ Store_getPendingOperations
    \/ Store_updateOperationStatus
    \/ Store_deletePendingOperation

StoreSpec == StoreInit /\ [][StoreNext]_vars

\* =================================================================
\* Properties
\* =================================================================
Range(q) == {q[i] : i \in DOMAIN q}
Ids(S) == {o.id : o \in S}
Draining == {d \in Invocations : pc[d] \in Active}
Position(q, x) == CHOOSE i \in DOMAIN q : q[i] = x

\* C1: at most one drain is active at a time; an invocation that finds the
\* guard set returns at once: it takes no listing (its locals stay empty),
\* changes no queue entry and makes no remote call.
C1_SingleDrain ==
    /\ [](Cardinality(Draining) <= 1)
    /\ [][\A d \in Invocations :
            (pc[d] = "idle" /\ pc'[d] # "idle" /\ Draining # {})
                => /\ pc'[d] = "check"
                   /\ loc'[d] = Frame0
                   /\ ops' = ops
                   /\ remote' = remote]_vars

\* a drain is suspended inside its loop and another invocation has returned
\* at the guard
C1_Witness ==
    \E d, e \in Invocations :
        /\ pc[d] \in {"mark", "exec", "delete", "fail"}
        /\ pc[e] = "check"
        /\ hist.dropped

\* C2: a drain takes the listed entries up in ascending timestamp order: the
\* attempts of one drain are listed entries, never go back in time, and (as
\* long as no storage request of the drain failed) never pass over a listed
\* entry with a smaller timestamp; a drain that ran to its end without a
\* storage failure attempted every listed entry.
C2_FifoReplay ==
    LET a == hist.attempts IN
    /\ Range(a) \subseteq hist.queued
    /\ \A i, j \in DOMAIN a : i < j => a[i].timestamp <= a[j].timestamp /\ a[i] # a[j]
    /\ ~hist.storeFault =>
          \A i \in DOMAIN a : \A q \in hist.queued :
              q.timestamp < a[i].timestamp => \E j \in 1..(i - 1) : a[j] = q
    /\ (hist.done /\ ~hist.storeFault) => Range(a) = hist.queued

\* two entries with strictly increasing timestamps were attempted in one drain
C2_Witness ==
    /\ Len(hist.attempts) >= 2
    /\ hist.attempts[1].timestamp < hist.attempts[2].timestamp

\* C3: in a drain that ran to its end with working storage, a replay that
\* failed with a remote error stops nothing: every listed entry was attempted,
\* every entry whose replay did not fail is gone from the queue, and the
\* failed entry is still queued, unchanged but for status 'failed' and a
\* retryCount one above the listed one.
C3_FailureIsolated ==
    (hist.done /\ ~hist.storeFault) =>
        \A k \in hist.queued :
            /\ k \in Range(hist.attempts)
            /\ k.id \in hist.netFailed =>
                  [k EXCEPT !.status = "failed", !.retryCount = k.retryCount + 1] \in ops
            /\ k.id \notin hist.netFailed => k.id \notin Ids(ops)

\* entry k failed remotely and a later entry of the same drain was replayed
\* and removed
C3_Witness ==
    /\ hist.done /\ ~hist.storeFault
    /\ \E k, m \in hist.queued :
        /\ Position(hist.attempts, k) < Position(hist.attempts, m)
        /\ k.id \in hist.netFailed
        /\ m.id \in hist.removed
        /\ m.id \notin Ids(ops)
        /\ \E o \in ops : o.id = k.id /\ o.status = "failed"

\* C4: an entry is deleted from pending_operations if and only if every
\* remote step of its replay succeeded: no entry removed in a drain had a
\* remote call of its replay report an error (the order-total read and
\* write-back included), and in a drain that ran to its end with working
\* storage every entry replayed without a remote error was removed.
C4_RemovedIffSucceeded ==
    /\ hist.removed \cap hist.errs = {}
    /\ (hist.done /\ ~hist.storeFault) =>
          \A k \in hist.queued : k.id \notin hist.errs => k.id \in hist.removed

\* C5: over all drains, no queued creation (order, order item, payment) has
\* its row inserted more than once, and no queued item creation has the order
\* total adjusted more than once.
C5_ExactlyOnce ==
    /\ \A k \in DOMAIN hist.applied :
          k[1] \in {"create_order", "create_order_item", "submit_payment"}
              => hist.applied[k] <= 1
    /\ \A k \in DOMAIN hist.adjusted :
          k[1] = "create_order_item" => hist.adjusted[k] <= 1

\* C6: when no drain invocation is inside syncPendingOperations the
\* in-progress guard is clear.
C6_GuardCleared == (Draining = {}) => ~isSyncing

\* an invocation enters syncPendingOperations in this step
DrainInvoked ==
    \E d \in Invocations :
        /\ pc[d] = "idle"
        /\ pc'[d] \in {"list", "check"} \/ (~isSyncing /\ isSyncing')

\* C7: every window 'online' event (navigator.onLine going from false to
\* true) invokes syncPendingOperations.
C7_OnlineInvokesDrain == [][(~navOnLine /\ navOnLine') => DrainInvoked]_vars

\* C8: on every reachable store hasPendingOperations() is true exactly when
\* some stored entry has status 'pending' or 'failed'; in particular it is
\* false once a drain has removed every entry it listed and nothing else
\* is pending.
C8_HasPendingIff ==
    hasPendingOperations(ops) <=> \E o \in ops : o.status \in {"pending", "failed"}

\* the queue held entries, a drain ran to its end and removed them all, and
\* hasPendingOperations() is false on what is left
C8_Witness ==
    /\ hist.done
    /\ hist.queued # {}
    /\ Ids(hist.queued) = hist.removed
    /\ ~hasPendingOperations(ops)

DispatchStep ==
    \/ CallCreateOrder
    \/ CallUpdateOrder
    \/ CallDeleteOrder
    \/ CallCreateOrderItem
    \/ CallUpdateOrderItem
    \/ CallDeleteOrderItem
    \/ CallSubmitPayment

\* C9: offline, a createOrder(data) call that does not throw leaves the remote
\* tables alone, adds exactly one entry, of type 'create_order' and with data
\* as payload, and returns a result that carries an order id.
C9_OfflineRoundTrip ==
    [][\A a \in OrderArgs :
          (~isOnline /\ Dispatcher(createOrder(a)) /\ ~lastDispatch'.threw)
              => /\ remote' = remote
                 /\ ops \subseteq ops'
                 /\ Cardinality(ops' \ ops) = 1
                 /\ \A o \in ops' \ ops : o.type = "create_order" /\ o.data = a
                 /\ lastDispatch'.result # Undefined]_vars

\* C10: an online dispatcher call never changes the queue, and when its
\* remote call fails the call throws and the remote tables are as before.
C10_OnlineNeverEnqueues ==
    [][(isOnline /\ DispatchStep)
          => /\ ops' = ops
             /\ lastDispatch'.remoteFailed =>
                    (lastDispatch'.threw /\ remote' = remote)]_vars

\* an online call failed remotely and threw, with an empty queue left empty
C10_Witness ==
    /\ isOnline
    /\ lastDispatch.remoteFailed
    /\ lastDispatch.threw
    /\ ops = {}

\* C11: in a drain that ran to its end with working storage, every entry
\* whose replay had a remote call report an error is still queued, with status
\* 'failed' and a retryCount one above the listed one.
C11_RemoteErrorsKept ==
    (hist.done /\ ~hist.storeFault) =>
        \A k \in hist.queued :
            k.id \in hist.errs =>
                [k EXCEPT !.status = "failed", !.retryCount = k.retryCount + 1] \in ops

Count(q, x) == Cardinality({i \in DOMAIN q : q[i] = x})

\* C12: the notifications of one drain start with 'syncing'; while the drain
\* is inside its loop 'synced' has not been emitted; 'synced' is emitted at
\* most once and only by a drain that ran to its end, after every listed
\* entry was attempted; with working storage a drain that has returned emitted
\* 'syncing' alone when the listing was empty and 'syncing', 'synced' in
\* that order when it was not, whatever replays failed.
C12_StatusPulses ==
    LET p == hist.pulses IN
    /\ p # <<>> => p[1] = "syncing" /\ Count(p, "syncing") = 1
    /\ Draining # {} => Count(p, "synced") = 0
    /\ Count(p, "synced") <= 1
    /\ Count(p, "synced") = 1 =>
          /\ hist.done
          /\ p[2] = "synced"
          /\ ~hist.storeFault => Range(hist.attempts) = hist.queued
    /\ (Draining = {} /\ ~hist.storeFault /\ p # <<>>) =>
          IF hist.queued = {} THEN p = <<"syncing">>
          ELSE Len(p) >= 2 /\ p[2] = "synced"

\* a drain whose only listed entry failed remotely still ended with 'synced'
C12_Witness ==
    /\ hist.pulses = <<"syncing", "synced">>
    /\ hist.queued # {}
    /\ Ids(hist.queued) = hist.netFailed

\* C13: after a drain that ended with an 'error' notification no entry is
\* left with status 'syncing', and every listed entry that is still queued
\* differs from its listed value in status and retryCount at most.
C13_ErrorKeepsQueue ==
    (Draining = {} /\ Count(hist.pulses, "error") > 0) =>
        /\ \A o \in ops : o.status # "syncing"
        /\ \A k \in hist.queued : \A o \in ops :
              o.id = k.id => [o EXCEPT !.status = k.status,
                                       !.retryCount = k.retryCount] = k

\* C14: a queued create_order_item never has the order total adjusted more
\* than once over all drains, and one removed by a drain whose replay of it
\* reported no remote error had the total of its order, if the order still
\* exists, adjusted exactly once.
C14_CreateItemTotalOnce ==
    /\ \A k \in DOMAIN hist.adjusted :
          k[1] = "create_order_item" => hist.adjusted[k] <= 1
    /\ \A k \in hist.queued :
          (k.type = "create_order_item" /\ k.id \in hist.removed
             /\ k.id \notin hist.errs /\ k.data.order_id \in DOMAIN remote.orders)
              => /\ <<k.type, k.id>> \in DOMAIN hist.adjusted
                 /\ hist.adjusted[<<k.type, k.id>>] = 1

Key(k) == <<k.type, k.id>>

\* C15: an update_order_item entry that a drain removed after a replay
\* without remote error, and whose item exists remotely, had the total of the
\* item's order recomputed, exactly once.
C15_UpdateItemReconciled ==
    \A k \in hist.queued :
        (k.type = "update_order_item" /\ k.id \in hist.removed
           /\ k.id \notin hist.errs /\ k.data.id \in DOMAIN remote.order_items)
            => /\ Key(k) \in DOMAIN hist.adjusted
               /\ hist.adjusted[Key(k)] = 1

\* C16: every remote call of a delete_order_item replay that reports no
\* error does its part: the first reads the item as the remote system holds
\* it, the second removes the item and touches no order, and the handler
\* returns there exactly when there was no item; the third reads the total of
\* the item's order; the fourth, if that total is still the one read, lowers
\* it by the item's price * quantity.
C16_DeleteItemReconciled ==
    [][\A d \in Invocations :
          (/\ pc[d] = "exec"
           /\ Current(d).type = "delete_order_item"
           /\ Exec(d)
           /\ Current(d).id \notin hist'.errs)
              => LET id == Current(d).data.id
                     l == loc[d].l
                     o == l.oldItem.order_id
                 IN CASE loc[d].step = 1 ->
                            /\ loc'[d].l.oldItem = SelectItem(remote, id)
                            /\ remote' = remote
                      [] loc[d].step = 2 ->
                            /\ id \notin DOMAIN remote'.order_items
                            /\ remote'.orders = remote.orders
                            /\ pc'[d] = "delete" <=> ~l.oldItem.found
                      [] loc[d].step = 3 ->
                            /\ loc'[d].l.orderData = SelectOrder(remote, o)
                            /\ remote' = remote
                      [] OTHER ->
                            (/\ o \in DOMAIN remote.orders
                             /\ remote.orders[o].total_amount
                                   = l.orderData.total_amount)
                                => remote'.orders[o].total_amount
                                      = remote.orders[o].total_amount
                                          - l.oldItem.price * l.oldItem.quantity]_vars

\* a drain replayed and removed the deletion of item i1 (price 2, quantity
\* 2): the item is gone and the total of order o1 went from 4 to 0
C16_Witness ==
    /\ hist.done
    /\ \E k \in hist.queued :
        /\ k.type = "delete_order_item"
        /\ k.id \in hist.removed
        /\ Key(k) \in DOMAIN hist.adjusted
        /\ hist.adjusted[Key(k)] = 1
    /\ "i1" \notin DOMAIN remote.order_items
    /\ "o1" \in DOMAIN remote.orders
    /\ remote.orders["o1"].total_amount = 0

\* C17: the listing a drain works on holds exactly the stored entries with
\* status 'pending' or 'failed', each once, in ascending timestamp order; no
\* entry listed or attempted had status 'syncing' when the listing was taken.
C17_ListPendingOrFailed ==
    /\ [](/\ \A k \in hist.queued : k.status \in {"pending", "failed"}
          /\ Range(hist.attempts) \subseteq hist.queued)
    /\ [][\A d \in Invocations :
            (pc[d] = "list" /\ pc'[d] \in {"mark", "check"} /\ ~hist'.storeFault)
                => LET q == loc'[d].pendingOps IN
                   /\ hist'.queued = {o \in ops : o.status \in {"pending", "failed"}}
                   /\ Range(q) = hist'.queued
                   /\ Len(q) = Cardinality(hist'.queued)
                   /\ \A i, j \in DOMAIN q :
                         i < j => q[i].timestamp <= q[j].timestamp]_vars

\* a drain took its listing while the store held an entry with status
\* 'syncing': the listing was empty and the drain returned
C17_Witness ==
    /\ \E o \in ops : o.status = "syncing"
    /\ hist.queued = {}
    /\ hist.pulses = <<"syncing">>
    /\ ~hist.storeFault
    /\ ~isSyncing
    /\ \E d \in Invocations : pc[d] = "check"

C19_MissingIdNoOp ==
    [][(Store_updateOperationStatus /\ hist'.missing) =>
          /\ ops' = ops
          /\ db => hist'.outcome \in {"ok", "err"}]_vars

\* a call for an id that was deleted resolved against a store that holds
\* another entry
C19_Witness ==
    /\ hist.call = "updateOperationStatus"
    /\ hist.missing
    /\ hist.outcome = "ok"
    /\ ops # {}
    /\ \E o \in ops : o.status # "pending"

\* C20: while init() has not resolved, every request against the store fails
\* ('Database not initialized') and no step changes the store: an offline dispatcher
\* call throws, the interval check leaves the pending flag alone, and a drain
\* that requests its listing emits 'error' after 'syncing', clears the guard
\* and replays nothing.
C20_BeforeInit ==
    [][~db =>
         /\ ops' = ops
         /\ (~isOnline /\ DispatchStep) => lastDispatch'.threw
         /\ checkPendingOperations => UNCHANGED hasPendingChanges
         /\ \A d \in Invocations :
               List(d) => /\ hist'.pulses = <<"syncing", "error">>
                          /\ hist'.storeFault
                          /\ hist'.attempts = <<>>
                          /\ ~isSyncing'
                          /\ pc'[d] \in {"check", "idle"}
                          /\ remote' = remote]_vars

\* a drain met the uninitialised store while an entry was waiting
C20_Witness ==
    /\ ~db
    /\ ops # {}
    /\ hist.pulses = <<"syncing", "error">>
    /\ hist.storeFault
    /\ ~isSyncing
    /\ \E d \in Invocations : pc[d] = "check"

\* C21: an explicit triggerSync() call made while the provider's isOnline is
\* true invokes syncPendingOperations, whether or not a window 'online' event
\* ever occurred; a call made while isOnline is false returns at once and
\* leaves the engine, the store and the remote system as they were.
C21_TriggerForwardsOnline ==
    [][\A d \in Invocations :
          triggerSync(d) =>
              IF isOnline THEN DrainInvoked
              ELSE UNCHANGED <<isSyncing, pc, loc, ops, remote, hist>>]_vars

\* a drain entered by the first event of the behaviour, as an explicit
\* trigger enters it when the page was mounted online
C21_Witness ==
    /\ isSyncing
    /\ \E d \in Invocations : pc[d] = "list"
    /\ events = 1
    /\ ops # {}

\* C21 as stated: every explicit triggerSync() call invokes
\* syncPendingOperations.
C21_TriggerAlwaysForwards ==
    [][(\E d \in Invocations : triggerSync(d)) => DrainInvoked]_vars

\* C22: ids are unique in the store, and no step changes the type, data or
\* timestamp of an entry that stays in the store: an entry after a step is
\* the entry with that id before the step, up to status and retryCount.
C22_EntryFrame ==
    /\ [](\A o, q \in ops : o.id = q.id => o = q)
    /\ [][\A o \in ops, q \in ops' :
             o.id = q.id => /\ q.type = o.type
                            /\ q.data = o.data
                            /\ q.timestamp = o.timestamp]_vars

\* an entry queued in this session was marked 'syncing', failed, and is in
\* the store as 'failed' with the fields it was listed with
C22_Witness ==
    \E o \in ops, k \in hist.queued :
        /\ o.id = k.id
        /\ o.id[1] > 0
        /\ o.status = "failed"
        /\ o.retryCount = k.retryCount + 1
        /\ o.type = k.type /\ o.data = k.data /\ o.timestamp = k.timestamp

\* C23: in the replay of create_order, an order insert that fails (no row
\* added) ends the handler at once, so the items insert is not attempted; an
\* items insert that fails leaves the remote tables as they are, the order
\* row inserted before it included; and in both cases the entry is then
\* written back as 'failed' with retryCount + 1 if the store accepts the write.
C23_CreateOrderNoRollback ==
    [][\A d \in Invocations :
          /\ (Exec(d) /\ Current(d).type = "create_order") =>
                /\ (loc[d].step = 1 /\ remote'.orders = remote.orders)
                       => pc'[d] = "fail" /\ remote' = remote
                /\ (loc[d].step = 1 /\ remote'.orders # remote.orders)
                       => /\ pc'[d] = (IF Len(Current(d).data.items) = 0
                                       THEN "delete" ELSE "exec")
                          /\ remote'.order_items = remote.order_items
                /\ (loc[d].step = 2 /\ remote'.order_items = remote.order_items)
                       => pc'[d] = "fail" /\ remote' = remote
          /\ (MarkFailed(d) /\ Current(d).type = "create_order" /\ ops' # ops) =>
                \E o \in ops' :
                    /\ o.id = Current(d).id
                    /\ o.status = "failed"
                    /\ o.retryCount = Current(d).retryCount + 1]_vars

\* the order of a queued create_order is in the remote table without its
\* items, and its entry is in the store as 'failed'
C23_Witness ==
    /\ hist.done
    /\ \E o \in ops :
        /\ o.type = "create_order" /\ o.status = "failed" /\ o.retryCount = 1
        /\ <<o.type, o.id>> \in DOMAIN hist.applied
    /\ \E key \in DOMAIN remote.orders :
        /\ key \notin DOMAIN Remote0.orders
        /\ \A i \in DOMAIN remote.order_items : remote.order_items[i].order_id # key

\* C24: the replay of submit_payment is one remote call. It adds exactly one
\* payment row, with the entry's id, order and amount, or fails and adds
\* none; in both cases the orders table (totals and statuses) and the
\* order_items table are as before, and the handler returns or throws there.
C24_PaymentFrame ==
    [][\A d \in Invocations :
          (Exec(d) /\ Current(d).type = "submit_payment") =>
              LET data == Current(d).data IN
              /\ remote'.orders = remote.orders
              /\ remote'.order_items = remote.order_items
              /\ pc'[d] \in {"delete", "fail"}
              /\ pc'[d] = "fail" => remote'.payments = remote.payments
              /\ pc'[d] = "delete" =>
                    /\ data.id \notin DOMAIN remote.payments
                    /\ DOMAIN remote'.payments = DOMAIN remote.payments \cup {data.id}
                    /\ remote'.payments[data.id] =
                           [order_id |-> data.order_id, amount |-> data.total_amount]
                    /\ \A p \in DOMAIN remote.payments :
                           remote'.payments[p] = remote.payments[p]]_vars

\* a queued payment was replayed and removed: its row is in payments and its
\* order is as it was
C24_Witness ==
    /\ \E k \in hist.queued : k.type = "submit_payment" /\ k.id \in hist.removed
    /\ "p1" \in DOMAIN remote.payments
    /\ "o1" \in DOMAIN remote.orders
    /\ remote.orders["o1"] = Remote0.orders["o1"]

\* C25: the replay of an entry whose type executeOperation does not know
\* changes nothing remotely and throws; the catch writes the entry back as
\* 'failed' with retryCount + 1 and the loop goes on to the next entry or to
\* the end of the drain; every drain that ran to its end with working
\* storage attempted every entry it listed, the unknown ones included, and
\* left each unknown one in the store as 'failed', to be listed again.
C25_UnknownType ==
    /\ []((hist.done /\ ~hist.storeFault) =>
            \A k \in hist.queued :
                /\ k \in Range(hist.attempts)
                /\ k.type \notin OpTypes =>
                      /\ k.id \in hist.netFailed
                      /\ [k EXCEPT !.status = "failed",
                                   !.retryCount = k.retryCount + 1] \in ops)
    /\ [][\A d \in Invocations :
             /\ (Exec(d) /\ Current(d).type \notin OpTypes) =>
                   remote' = remote /\ pc'[d] = "fail"
             /\ (MarkFailed(d) /\ Current(d).type \notin OpTypes /\ ops' # ops) =>
                   /\ [Current(d) EXCEPT !.status = "failed",
                                         !.retryCount = @ + 1] \in ops'
                   /\ IF loc[d].idx < Len(loc[d].pendingOps)
                      THEN pc'[d] = "mark" /\ loc'[d].idx = loc[d].idx + 1
                      ELSE hist'.done]_vars

\* the unknown entry failed in two drains; the entry listed after it in the
\* first drain was replayed and removed
C25_Witness ==
    /\ hist.done /\ ~hist.storeFault
    /\ \E o \in ops : o.type \notin OpTypes /\ o.status = "failed" /\ o.retryCount = 2
    /\ Cardinality(ops) = 1
    /\ "i2" \in DOMAIN remote.order_items

\* C26: a window 'online' event that arrives while the connection is already
\* up (no 'offline' since the last 'online' or since an online mount) is not
\* handled again: it invokes no drain; and a repeated 'offline' event changes
\* nothing.
C26_OncePerTransition ==
    [][/\ \A d \in Invocations :
             (handleOnline(d) /\ navOnLine) => ~DrainInvoked
       /\ (handleOffline /\ ~navOnLine) => UNCHANGED <<isOnline, isSyncing, pc>>]_vars

\* C27: a trigger that finds the guard set starts nothing, then or later (the
\* only steps that enter a drain are handler calls that find the guard
\* clear); and the interval check is a trigger: run while the provider is
\* online, no drain is in flight and an entry is 'pending' or 'failed', it
\* invokes the drain.
C27_DroppedThenPickedUp ==
    [][/\ (~isSyncing /\ isSyncing') =>
             \E d \in Invocations : pc[d] = "idle" /\ pc'[d] \in {"list", "idle"}
       /\ (\E d \in Invocations : (triggerSync(d) \/ handleOnline(d)) /\ isSyncing)
             => UNCHANGED <<isSyncing, ops, remote, loc>>
       /\ (/\ checkPendingOperations
           /\ db /\ isOnline /\ ~isSyncing
           /\ \E o \in ops : Pending(o)) => DrainInvoked]_vars

\* C28: at every moment at most one entry of the store has status 'syncing',
\* and an entry is marked 'syncing' only when no invocation is inside the
\* replay of another entry (between its mark and its delete or write-back).
C28_Sequential ==
    /\ [](Cardinality({o \in ops : o.status = "syncing"}) <= 1)
    /\ [][\A d \in Invocations :
             Mark(d) => \A e \in Invocations \ {d} :
                            pc[e] \notin {"mark", "exec", "delete", "fail"}]_vars

\* C29: the retryCount of a stored entry never decreases; it changes only in
\* the catch of the iteration that attempted that entry, by exactly one, and
\* every such catch whose write the store accepts makes that change; and a
\* listing contains every 'failed' entry of the store, whatever its
\* retryCount.
C29_RetryCount ==
    [][/\ \A o \in ops, q \in ops' :
             (o.id = q.id /\ q.retryCount # o.retryCount) =>
                 /\ q.retryCount = o.retryCount + 1
                 /\ q.status = "failed"
                 /\ \E d \in Invocations : MarkFailed(d) /\ Current(d).id = o.id
       /\ \A d \in Invocations :
             /\ MarkFailed(d) =>
                   \/ [Current(d) EXCEPT !.status = "failed",
                                         !.retryCount = @ + 1] \in ops'
                   \/ ops' = ops /\ hist'.storeFault
             /\ (List(d) /\ ~hist'.storeFault) =>
                   \A o \in ops : o.status = "failed" => o \in hist'.queued]_vars

\* an entry that failed in two drains is being replayed in a third
C29_Witness ==
    \E d \in Invocations :
        /\ pc[d] = "exec"
        /\ Current(d).status = "failed"
        /\ Current(d).retryCount = 2
        /\ \E o \in ops : o.id = Current(d).id /\ o.status = "syncing"
                                                /\ o.retryCount = 2

\* the payload fields that the replay handler of an entry uses as row keys
ReplayKeys(o) ==
    CASE o.type = "create_order" ->
            {o.data.id} \cup {o.data.items[i].id : i \in DOMAIN o.data.items}
      [] o.type \in {"update_order", "delete_order", "delete_order_item"} ->
            {o.data.id}
      [] o.type \in {"create_order_item", "update_order_item", "submit_payment"} ->
            {o.data.id, o.data.order_id}
      [] OTHER -> {}

\* C30: every entry that an offline dispatcher call adds to the store carries
\* each field that the replay of its type uses as a key: none is undefined.
C30_PayloadComplete ==
    [][(~isOnline /\ DispatchStep) =>
          \A e \in ops' \ ops : Undefined \notin ReplayKeys(e)]_vars

\* C31: whenever the guard isSyncing is clear, no entry of the store has
\* status 'syncing'.
C31_NoStuckSyncing ==
    ~isSyncing => \A o \in ops : o.status # "syncing"

\* SyncProvider's syncStatus as its subscriber sets it from the last
\* notification; the timers that turn 'synced' and 'error' back to 'idle'
\* are left out, they never start from 'syncing'.
syncStatus ==
    IF hist.pulses = <<>> THEN "idle" ELSE hist.pulses[Len(hist.pulses)]

\* C32: once the guard is clear (no drain is running), the last notification
\* is not 'syncing': every drain that returned, one that found nothing to
\* replay included, closed its 'syncing' with 'synced' or 'error'.
C32_SyncingClosed ==
    ~isSyncing => syncStatus # "syncing"

\* C33: a drain works on the listing it took. An offline dispatcher call made
\* while a drain is past its listing adds its entry to the store and not to
\* that listing; every step of the drain's loop leaves all entries other than
\* the one it is replaying as they are, so the new entry is still in the
\* store, 'pending', when the drain ends; and every listing contains each
\* 'pending' entry of the store, ordered by timestamp.
C33_EnqueuedDuringDrain ==
    [][\A d \in Invocations :
          /\ (pc[d] \in {"mark", "exec", "delete", "fail"}
                 /\ ~isOnline /\ DispatchStep) =>
                /\ loc'[d] = loc[d]
                /\ pc'[d] = pc[d]
                /\ \A e \in ops' \ ops :
                      e.status = "pending" /\ e.id \notin Ids(Range(loc[d].pendingOps))
          /\ (Mark(d) \/ Exec(d) \/ Delete(d) \/ MarkFailed(d)) =>
                \A o \in ops : o.id # Current(d).id => o \in ops'
          /\ (List(d) /\ ~hist'.storeFault) =>
                /\ \A o \in ops : o.status = "pending" => o \in hist'.queued
                /\ LET q == loc'[d].pendingOps IN
                   \A i, j \in DOMAIN q : i < j => q[i].timestamp <= q[j].timestamp]_vars

\* a drain has replayed its last listed entry, and the store holds a
\* 'pending' entry that was queued after the listing was taken
C33_Witness ==
    \E d \in Invocations :
        /\ pc[d] = "delete"
        /\ loc[d].idx = Len(loc[d].pendingOps)
        /\ \E o \in ops :
              /\ o.status = "pending"
              /\ o.id = lastDispatch.queuedId
              /\ o.id \notin Ids(Range(loc[d].pendingOps))
              /\ o.timestamp >= Current(d).timestamp

\* C34: the entry queued last is the last one of the listing that a drain
\* would take (and replay in that order), also when an entry queued before it
\* has the same timestamp.
C34_TiesInEnqueueOrder ==
    \A e \in ops :
        e.id = lastDispatch.queuedId =>
            LET q == getPendingOperations(ops) IN q[Len(q)] = e

\* sum of price * quantity over the items with keys in S
RECURSIVE ItemsTotal(_, _)
ItemsTotal(r, S) ==
    IF S = {} THEN 0
    ELSE LET i == CHOOSE x \in S : TRUE IN
         r.order_items[i].price * r.order_items[i].quantity
             + ItemsTotal(r, S \ {i})

\* every order's total_amount is the sum over its items
TotalsDerived(r) ==
    \A o \in DOMAIN r.orders :
        r.orders[o].total_amount
            = ItemsTotal(r, {i \in DOMAIN r.order_items : r.order_items[i].order_id = o})

ItemTypes == {"create_order_item", "update_order_item", "delete_order_item"}

\* C35: the remote tables start with derived totals and, as long as no
\* dispatcher call was made, only drains write to them; after a drain that
\* ran to its end, listed order-item entries only and removed them all,
\* every order's total is again the sum over its items.
C35_TotalsDerived ==
    (/\ lastDispatch.result = "none" /\ lastDispatch.queuedId = "none"
     /\ ~lastDispatch.threw /\ ~lastDispatch.remoteFailed
     /\ hist.done
     /\ hist.queued # {}
     /\ \A k \in hist.queued : k.type \in ItemTypes /\ k.id \in hist.removed)
        => TotalsDerived(remote)

\* ------------------------------------------------------------------ C36
\* lines 24-26 with every request getting through: the replay handler of one
\* entry run from its first request to its return or its throw
RECURSIVE Replayed(_, _, _, _)
Replayed(operation, step, r, l) ==
    LET out == executeOperation(operation, step, TRUE, r, l) IN
    IF out.thrown THEN [thrown |-> TRUE, r |-> out.r]
    ELSE IF out.finished THEN [thrown |-> FALSE, r |-> out.r]
    ELSE Replayed(operation, step + 1, out.r, out.l)

\* the step is an online dispatcher call that succeeded, and the remote
\* tables after it differ from what the replay of the payload the offline
\* branch would have queued makes of the same tables
OnlineDiffers(type, data) ==
    /\ isOnline
    /\ ~lastDispatch'.threw
    /\ LET rep == Replayed([type |-> type, data |-> data], 1, remote, Locals0) IN
       rep.thrown \/ remote' # rep.r

\* C36: for each mutation type, a dispatcher call that succeeds online
\* leaves the remote tables (orders with their totals, order_items,
\* payments) as the successful replay of the entry queued by the same call
\* offline would leave them.
C36_OnlineAsReplayed ==
    [][/\ \A a \in OrderArgs :
            ~(Dispatcher(createOrder(a)) /\ OnlineDiffers("create_order", a))
       /\ \A u \in OrderUpdates :
            ~(Dispatcher(updateOrder("o1", u))
                /\ OnlineDiffers("update_order", [u EXCEPT !.id = "o1"]))
       /\ ~(Dispatcher(deleteOrder("o1"))
                /\ OnlineDiffers("delete_order", Payload("o1", Undefined, 0, 0, 0, <<>>)))
       /\ \A a \in ItemArgs :
            ~(Dispatcher(createOrderItem(a)) /\ OnlineDiffers("create_order_item", a))
       /\ \A u \in ItemUpdates :
            ~(Dispatcher(updateOrderItem("i1", u))
                /\ OnlineDiffers("update_order_item", [u EXCEPT !.id = "i1"]))
       /\ ~(Dispatcher(deleteOrderItem("i1"))
                /\ OnlineDiffers("delete_order_item",
                                 Payload("i1", Undefined, 0, 0, 0, <<>>)))
       /\ \A a \in PaymentArgs :
            ~(Dispatcher(submitPayment(a)) /\ OnlineDiffers("submit_payment", a))]_vars

\* ------------------------------------------------------------------ C37
\* number of times the replay of entry k rewrote an order total
Adjusted(k) == IF Key(k) \in DOMAIN hist.adjusted THEN hist.adjusted[Key(k)] ELSE 0

\* the delete_order_item entries that drains have listed for item i
DeletesOf(i) == {k \in hist.queued : k.type = "delete_order_item" /\ k.data.id = i}

SubtractedAtMostOnce ==
    \A k1 \in hist.queued : \A k2 \in DeletesOf(k1.data.id) :
        k1 \in DeletesOf(k1.data.id) =>
            /\ Adjusted(k1) <= 1
            /\ k1.id # k2.id => ~(Adjusted(k1) >= 1 /\ Adjusted(k2) >= 1)

\* C37: when the replay of an update_order_item or delete_order_item entry
\* finds no row for the item, its requests that get through change no order
\* (so no total), the handler returns after the second request without
\* throwing, and the removal that follows takes the entry out of the queue;
\* over all the delete_order_item entries for one item, the order total is
\* rewritten at most once.
C37_MissingItemReplay ==
    [][/\ \A d \in Invocations :
            /\ (/\ Exec(d)
                /\ Current(d).type \in {"update_order_item", "delete_order_item"}
                /\ events' = events
                /\ \/ loc[d].step = 1
                        /\ Current(d).data.id \notin DOMAIN remote.order_items
                   \/ loc[d].step = 2 /\ ~loc[d].l.oldItem.found)
                 => /\ remote'.orders = remote.orders
                    /\ remote'.payments = remote.payments
                    /\ ~loc'[d].l.oldItem.found
                    /\ pc'[d] = IF loc[d].step = 1 THEN "exec" ELSE "delete"
            /\ (Delete(d) /\ Current(d).id \in hist'.removed)
                 => \A o \in ops' : o.id # Current(d).id
       /\ SubtractedAtMostOnce']_vars

\* a second delete_order_item entry and an update_order_item entry for an
\* item were replayed and removed after the first delete_order_item entry had
\* taken the item's contribution off the total
C37_Witness ==
    \E k1, k2 \in DeletesOf("i1") :
        /\ k1.id # k2.id
        /\ Adjusted(k1) = 1 /\ Adjusted(k2) = 0
        /\ {k1.id, k2.id} \subseteq hist.removed
        /\ \E u \in hist.queued :
              /\ u.type = "update_order_item" /\ u.data.id = "i1"
              /\ u.id \in hist.removed /\ Adjusted(u) = 0
        /\ ops = {}
        /\ "i1" \notin DOMAIN remote.order_items
        /\ remote.orders["o1"].total_amount = 0
====
